---------------------------- MODULE Spec2Model ----------------------------
(***************************************************************************)
(* Lightning (local-government incident triage): the App working set, the  *)
(* store calls of services/firebase with the normalization of fetchReports,*)
(* the per-row deletion and verification workflows of ReportTable, the     *)
(* image verification of geminiService and the consultation panel of       *)
(* SolutionPanel.                                                          *)
(*                                                                         *)
(* The document store is written by this client only (concurrent operators *)
(* are a non-goal of the system), so its content changes only through the  *)
(* deleteDoc calls modelled here.                                          *)
(***************************************************************************)
EXTENDS Integers, Sequences, FiniteSets, Bags, TLC

(***************************************************************************)
(* Bounds of the model.                                                    *)
(***************************************************************************)
\* auto-revert timeouts that may be pending at a time, over all rows
MaxTimers == 2
\* store delete calls that may be outstanding at a time, those of unmounted
\* rows apart
MaxCalls == 1
\* store delete calls of unmounted rows that may be outstanding once a run
\* has unmounted a row with its store delete call outstanding
MaxAbandoned == 0
\* loadData calls that may be outstanding at a time
MaxFetches == 1
\* verdicts in one response of the classification service
MaxItems == 1
\* operator turns in one consultation session
MaxTurns == 2
\* tokens of an image value
MaxTokens == 4
\* instants the clock may advance through
MaxClock == 1

(***************************************************************************)
(* Program constants.                                                      *)
(***************************************************************************)
\* setTimeout(..., 3000): the auto-revert delay, in ticks of one second
TimerTicks == 3
\* `report.imageBase64.length < 50`: the least length of a usable image
MinImageLength == 50

\* the records of the collection, in the store's listing order
StoreOrder == <<"r1", "r2">>

Range(s) == {s[i] : i \in 1..Len(s)}

AllIds == Range(StoreOrder)

VARIABLES
    store,        \* ids of the records the document store holds
    reports,      \* App.reports: the working set, a sequence of report ids
    appLoading,   \* App.loading
    appError,     \* App.error: "null" or the message shown in the banner
    fetches,      \* bag of loadData calls awaiting fetchReports
    deleteState,  \* ReportRow.deleteState of the row mounted for each id
    timers,       \* per row: remaining ticks -> number of pending timeouts
    deleteCalls,  \* bag of handleDelete calls awaiting deleteReport
    sinceConfirm, \* per row: ticks since the delete request that moved it
                  \* from idle to confirm, while that is its latest delete
                  \* request; -1 otherwise
    analysis,     \* SolutionPanel.analysis: "null" or the AnalysisResult held
    loading,      \* SolutionPanel.loading
    error,        \* SolutionPanel.error: "null" or the message shown
    chatRef,      \* SolutionPanel.chatRef.current: "null" or the Chat handle
    messages,     \* SolutionPanel.messages
    chatLoading,  \* SolutionPanel.chatLoading
    genCall,      \* the handleGenerateSolution call awaiting analyzeReports
    chatCall,     \* the handleSendChat call awaiting sendChatMessage
    analyzedBatch, \* the batch whose analysis is held in `analysis`
    lastGen,      \* the analyzeReports call that settled last
    docs,         \* the raw fields of each record of the collection
    reportOf,     \* the Report of each id of the working set, else null
    now,          \* the clock: the current instant
    verifyState,  \* ReportRow.verifyState of the row mounted for each id
    auditResult,  \* ReportRow.auditResult of the row mounted for each id
    verifyCall,   \* per row: its handleVerifyClick call awaiting
                  \* verifyReportImage, if any
    removed,      \* ids that the continuation of a store-confirmed deletion
                  \* has filtered out of the working set (history)
    abandoned     \* the kinds of service request (a report id for its
                  \* verification, "analyze" for the batch analysis) of which
                  \* a request is in flight whose row or panel has been
                  \* unmounted; the sendMessage of an unmounted panel, whose
                  \* Chat handle nothing holds any more, is not followed

intakeVars == <<docs, reportOf, now>>
auditVars == <<verifyState, auditResult, verifyCall>>
appVars == <<store, reports, appLoading, appError, fetches, docs, reportOf, now,
             removed, abandoned>>
rowVars == <<deleteState, timers, deleteCalls, sinceConfirm,
             verifyState, auditResult, verifyCall>>
panelVars == <<analysis, loading, error, chatRef, messages, chatLoading,
               genCall, chatCall, analyzedBatch, lastGen>>
vars == <<store, reports, appLoading, appError, fetches,
          deleteState, timers, deleteCalls, sinceConfirm,
          analysis, loading, error, chatRef, messages, chatLoading,
          genCall, chatCall, analyzedBatch, lastGen,
          docs, reportOf, now, verifyState, auditResult, verifyCall,
          removed, abandoned>>

-----------------------------------------------------------------------------
(***************************************************************************)
(* Helpers.                                                                *)
(***************************************************************************)
RECURSIVE SelectIds(_, _)
\* Array.prototype.filter over a sequence of ids: keeps order
SelectIds(s, keep) ==
    IF s = <<>> THEN <<>>
    ELSE IF Head(s) \in keep THEN <<Head(s)>> \o SelectIds(Tail(s), keep)
         ELSE SelectIds(Tail(s), keep)

One(e) == SetToBag({e})

\* null, and what stands for it where the code holds no call
Null == [kind |-> "null"]
NoCall == [stage |-> "none"]

NoTimers == [k \in 0..TimerTicks |-> 0]

RECURSIVE SumUpTo(_, _)
SumUpTo(f, k) == IF k < 0 THEN 0 ELSE f[k] + SumUpTo(f, k - 1)

TimerCount(x) == SumUpTo(timers[x], TimerTicks)

RECURSIVE TimersOf(_)
TimersOf(S) == IF S = {} THEN 0
               ELSE LET x == CHOOSE e \in S : TRUE
                    IN  TimerCount(x) + TimersOf(S \ {x})

PendingTimers == TimersOf(AllIds)

\* FetchReportsData with a seeded fault: the listing still holds the records
\* that have been deleted
FetchReportsDataStale(st) == SelectIds(StoreOrder, AllIds)

\* FetchReportsData with a seeded fault: the listing is pushed in front
FetchReportsDataReversed(st) ==
    [i \in 1..Len(SelectIds(StoreOrder, st)) |->
        SelectIds(StoreOrder, st)[Len(SelectIds(StoreOrder, st)) + 1 - i]]

\* getDocs(collection(db, COLLECTION_NAME)) followed by the forEach of
\* fetchReports: one Report per record, in the store's order
FetchReportsData(st) == SelectIds(StoreOrder, st)

\* A row of ReportTable exists for id x when the table is rendered
\* (App renders it only while loading is false) and x is in reports.
MountedIn(x, rs, ld) == ~ld /\ x \in Range(rs)

Mounted(x) == MountedIn(x, reports, appLoading)

RECURSIVE BagSum(_, _)
BagSum(b, S) == IF S = {} THEN 0
                ELSE LET c == CHOOSE e \in S : TRUE
                     IN  b[c] + BagSum(b, S \ {c})

\* a store delete call whose row has been unmounted
AbandonedCall(c) == ~c.live /\ c.id # ""

\* The rows after App re-renders with working set rs and loading flag ld:
\* a row that is unmounted loses its useState values, its pending timeouts
\* become no-ops, and the continuation of its handleDeleteClick then sets
\* state on an unmounted component (a no-op): its call is marked not live.
Kept(x, rs, ld) == Mounted(x) /\ MountedIn(x, rs, ld)

RowsAfterRender(rs, ld, ds, calls) ==
    /\ deleteState' = [x \in AllIds |-> IF Kept(x, rs, ld) THEN ds[x] ELSE "idle"]
    /\ timers' = [x \in AllIds |-> IF Kept(x, rs, ld) THEN timers[x] ELSE NoTimers]
    /\ sinceConfirm' = [x \in AllIds |-> IF Kept(x, rs, ld) THEN sinceConfirm[x] ELSE -1]
    /\ verifyState' = [x \in AllIds |-> IF Kept(x, rs, ld) THEN verifyState[x] ELSE "idle"]
    /\ auditResult' = [x \in AllIds |-> IF Kept(x, rs, ld) THEN auditResult[x] ELSE Null]
    /\ verifyCall' = [x \in AllIds |-> IF Kept(x, rs, ld) THEN verifyCall[x] ELSE NoCall]
    /\ LET Upd(c) == IF Kept(c.id, rs, ld) THEN c ELSE [c EXCEPT !.live = FALSE]
       IN  deleteCalls' = [e \in {Upd(c) : c \in DOMAIN calls} |->
                              BagSum(calls, {c \in DOMAIN calls : Upd(c) = e})]
    /\ \/ \A c \in DOMAIN calls : c.live => Kept(c.id, rs, ld)
       \/ BagSum(deleteCalls', {c \in DOMAIN deleteCalls' : AbandonedCall(c)})
             <= MaxAbandoned

\* The service requests in flight, per kind, whose component is unmounted
\* when App re-renders with working set rs and loading flag ld: nothing
\* cancels a request, and its continuation then sets state on an unmounted
\* component (a no-op).
RequestKinds == {"analyze"} \cup AllIds

AbandonedAfterRender(rs, ld) ==
    LET lost(k) == IF k = "analyze" THEN ~appLoading /\ ld /\ genCall.stage = "sent"
                   ELSE Mounted(k) /\ ~MountedIn(k, rs, ld) /\ verifyCall[k].stage = "sent"
    IN  abandoned' = abandoned \cup {k \in RequestKinds : lost(k)}

-----------------------------------------------------------------------------
(***************************************************************************)
(* Raw field values and the normalization of fetchReports.                 *)
(*                                                                         *)
(* A string is the concatenation of a sequence of tokens; the tokens are   *)
(* chosen so that no text has two tokenizations.                           *)
(***************************************************************************)
\* a field the record does not have: reading it gives undefined
Absent == [kind |-> "absent"]

Str(toks) == [kind |-> "string", toks |-> toks]

Num(n) == [kind |-> "number", nan |-> FALSE, n |-> n]

NaN == [kind |-> "number", nan |-> TRUE, n |-> 0]

Bool(b) == [kind |-> "boolean", b |-> b]

\* a Firestore Timestamp: it has toDate(), and `shown` is what
\* toDate().toLocaleString() gives for its instant
StoreTimestamp == [kind |-> "timestamp", shown |-> "1/5/2024, 8:00:00 AM"]

\* new Date().toISOString() taken at instant t
IsoText(t) == [kind |-> "instant", at |-> t]

\* JavaScript truthiness
Truthy(v) ==
    CASE v.kind = "absent" -> FALSE
      [] v.kind = "null" -> FALSE
      [] v.kind = "string" -> v.toks # <<>>
      [] v.kind = "number" -> ~v.nan /\ v.n # 0
      [] v.kind = "boolean" -> v.b
      [] OTHER -> TRUE

\* a || b
Or(a, b) == IF Truthy(a) THEN a ELSE b

\* the numbers of the model and their decimal text
NumText == (-3 :> "-3") @@ (0 :> "0") @@ (5 :> "5") @@ (7 :> "7")

TextNum == ("-3" :> -3) @@ ("0" :> 0) @@ ("5" :> 5) @@ ("7" :> 7)

\* String(v), also what a template literal and parseFloat make of v
ToStr(v) ==
    CASE v.kind = "string" -> v
      [] v.kind = "number" -> Str(<<IF v.nan THEN "NaN" ELSE NumText[v.n]>>)
      [] v.kind = "null" -> Str(<<"null">>)
      [] v.kind = "absent" -> Str(<<"undefined">>)
      [] v.kind = "boolean" -> Str(<<IF v.b THEN "true" ELSE "false">>)
      [] OTHER -> Str(<<"[object Object]">>)

\* parseFloat(v): the number the text of v starts with, NaN when it starts
\* with none
ParseFloat(v) ==
    LET t == ToStr(v).toks
    IN  IF t # <<>> /\ Head(t) \in DOMAIN TextNum THEN Num(TextNum[Head(t)])
        ELSE NaN

\* Coordinate with a seeded fault: the result of parseFloat is used unchecked
CoordinateUnchecked(v) == ParseFloat(v)

\* const lat = parseFloat(data.latitude); ... isNaN(lat) ? 0 : lat
Coordinate(v) == IF ParseFloat(v).nan THEN Num(0) ELSE ParseFloat(v)

\* the if / else-if chain that sets timestampStr; data.keys lists, in the
\* order of Object.keys(data), the fields whose name starts with 'timestamp'
TimestampStr(data) ==
    IF Truthy(data.timestamp) /\ data.timestamp.kind = "timestamp"
    THEN Str(<<data.timestamp.shown>>)
    ELSE IF Truthy(data.timestamp) THEN ToStr(data.timestamp)
    ELSE IF Truthy(data.timestampJanuary)
    THEN Str(<<"January ">> \o ToStr(data.timestampJanuary).toks)
    ELSE IF data.keys # <<>> THEN ToStr(data[Head(data.keys)])
    ELSE Str(<<"Unknown Time">>)

\* the placeholder of data-entry tooling
Placeholder == Str(<<"...">>)

\* ImgBase64 with a seeded fault: the placeholder is passed through
ImgBase64Raw(data) == Or(data.imageBase64, Str(<<>>))

\* let imgBase64 = data.imageBase64 || ""; if (imgBase64 === "...") imgBase64 = ""
ImgBase64(data) ==
    IF Or(data.imageBase64, Str(<<>>)) = Placeholder THEN Str(<<>>)
    ELSE Or(data.imageBase64, Str(<<>>))

\* DateTime with a seeded fault: the instant of the normalization always
DateTimeAlwaysNow(data, t) == IsoText(t)

\* dateTime: data.dateTime || new Date().toISOString()
DateTime(data, t) == Or(data.dateTime, IsoText(t))

\* the Report pushed for the document with identifier id and fields data,
\* at instant t
Normalize(id, data, t) ==
    [id |-> id,
     address |-> Or(data.address, Str(<<"Unknown Location">>)),
     dateTime |-> DateTime(data, t),
     description |-> Or(data.description, Str(<<"No description provided">>)),
     imageBase64 |-> ImgBase64(data),
     latitude |-> Coordinate(data.latitude),
     longitude |-> Coordinate(data.longitude),
     timestampString |-> TimestampStr(data)]

(***************************************************************************)
(* The raw records of the model.                                           *)
(***************************************************************************)
\* a record with every field of a report and no image
FullDoc ==
    [address |-> Str(<<"12 Jalan Besar">>),
     dateTime |-> Str(<<"2024-01-05T08:00:00Z">>),
     description |-> Str(<<"Pothole">>),
     imageBase64 |-> Absent,
     latitude |-> Num(5),
     longitude |-> Num(7),
     timestamp |-> Absent,
     timestampJanuary |-> Absent,
     timestampFeb |-> Absent,
     keys |-> <<>>]

CoordValues ==
    {Absent, Null, Bool(TRUE), Num(0), Num(5), Num(-3), NaN,
     Str(<<>>), Str(<<"5">>), Str(<<"5", "abc">>), Str(<<"abc">>)}

TimestampValues ==
    {Absent, Null, Str(<<>>), Str(<<"Monday 8am">>), Num(7), Num(0),
     StoreTimestamp}

JanuaryValues == {Absent, Str(<<>>), Str(<<"5">>), Num(5)}

FebValues == {Absent, Null, Str(<<"3">>)}

TimestampKeys == {"timestamp", "timestampJanuary", "timestampFeb"}

\* the orders in which Object.keys may list the fields of d whose name
\* starts with 'timestamp'
KeyOrders(d) ==
    LET present == {k \in TimestampKeys : d[k] # Absent}
    IN  {s \in [1..Cardinality(present) -> present] :
            \A i, j \in DOMAIN s : i # j => s[i] # s[j]}

\* the tokens of an image value; "<payload>" stands for 60 characters of
\* base64 text
ImgToks == {"data:", "image/png", ";base64,", "base64,", "<payload>"}

TokLen ==
    ("data:" :> 5) @@ ("image/png" :> 9) @@ (";base64," :> 8) @@ ("base64," :> 7)
    @@ ("<payload>" :> 60) @@ (";" :> 1) @@ ("..." :> 3) @@ ("image/jpeg" :> 10)

ImageValues ==
    {Absent, Null, Placeholder}
    \cup {Str(t) : t \in UNION {[1..n -> ImgToks] : n \in 0..MaxTokens}}

Present(sample) == {Absent, sample}

CoordDocs ==
    {[FullDoc EXCEPT !.latitude = a, !.longitude = b] :
        a \in CoordValues, b \in CoordValues}

TimestampDocs ==
    UNION {{[d EXCEPT !.keys = k] : k \in KeyOrders(d)} :
             d \in {[FullDoc EXCEPT !.timestamp = t, !.timestampJanuary = j,
                                    !.timestampFeb = o] :
                      t \in TimestampValues, j \in JanuaryValues, o \in FebValues}}

ImageDocs == {[FullDoc EXCEPT !.imageBase64 = i] : i \in ImageValues}

DateTimeDocs == {[FullDoc EXCEPT !.dateTime = v] : v \in {Absent, Null, Str(<<>>)}}

\* every combination of missing fields
PresenceDocs ==
    UNION {{[d EXCEPT !.keys = k] : k \in KeyOrders(d)} :
             d \in [address : Present(FullDoc.address),
                    dateTime : Present(FullDoc.dateTime),
                    description : Present(FullDoc.description),
                    imageBase64 : Present(Str(<<"<payload>">>)),
                    latitude : Present(FullDoc.latitude),
                    longitude : Present(FullDoc.longitude),
                    timestamp : Present(StoreTimestamp),
                    timestampJanuary : {Absent},
                    timestampFeb : {Absent},
                    keys : {<<>>}]}

RawRecords ==
    CoordDocs \cup TimestampDocs \cup ImageDocs \cup DateTimeDocs \cup PresenceDocs

\* the Reports fetchReports pushes for the listing ids at instant t, by id
ReportsPushed(ids, t) ==
    [x \in AllIds |-> IF x \in Range(ids) THEN Normalize(x, docs[x], t) ELSE Null]

-----------------------------------------------------------------------------
(***************************************************************************)
(* App: loadData and fetchReports.                                         *)
(***************************************************************************)
SentFetch == [stage |-> "sent", data |-> <<>>, at |-> 0]

\* index.tsx renders <App/> inside React.StrictMode: the mount effect, and
\* with it loadData, runs twice in a development build and once in a
\* production build.
RowsInit ==
    /\ deleteState = [x \in AllIds |-> "idle"]
    /\ timers = [x \in AllIds |-> NoTimers]
    /\ deleteCalls = EmptyBag
    /\ sinceConfirm = [x \in AllIds |-> -1]
    /\ verifyState = [x \in AllIds |-> "idle"]
    /\ auditResult = [x \in AllIds |-> Null]
    /\ verifyCall = [x \in AllIds |-> NoCall]

\* the useState / useRef initial values of SolutionPanel
PanelInit ==
    /\ analysis = Null
    /\ loading = FALSE
    /\ error = "null"
    /\ chatRef = Null
    /\ messages = <<>>
    /\ chatLoading = FALSE
    /\ genCall = NoCall
    /\ chatCall = NoCall
    /\ analyzedBatch = <<>>
    /\ lastGen = NoCall

\* SolutionPanel after App re-renders with loading flag ld: App renders it
\* only while loading is false, so a panel that is unmounted loses its
\* useState and useRef values, and the continuations of its pending calls
\* then set state on an unmounted component (a no-op)
PanelAfterRender(ld) ==
    IF ~appLoading /\ ld
    THEN /\ analysis' = Null
         /\ loading' = FALSE
         /\ error' = "null"
         /\ chatRef' = Null
         /\ messages' = <<>>
         /\ chatLoading' = FALSE
         /\ genCall' = NoCall
         /\ chatCall' = NoCall
         /\ analyzedBatch' = <<>>
         /\ lastGen' = NoCall
    ELSE UNCHANGED panelVars

\* the state after the first render and its mount effect, the collection
\* holding the records ds
InitWith(ds) ==
    /\ store = AllIds
    /\ docs = ds
    /\ reports = <<>>
    /\ reportOf = [x \in AllIds |-> Null]
    /\ now = 0
    /\ removed = {}
    /\ abandoned = {}
    /\ appLoading = TRUE
    /\ appError = "null"
    /\ \E n \in 1..2 : fetches = [f \in {SentFetch} |-> n]
    /\ RowsInit
    /\ PanelInit

Init == InitWith([x \in AllIds |-> FullDoc])

\* the store answers the getDocs of one fetchReports call
StoreServeFetch ==
    /\ BagIn(SentFetch, fetches)
    /\ \E ok \in BOOLEAN :
         fetches' = (fetches (-) One(SentFetch))
                    (+) One(IF ok THEN [stage |-> "ok", data |-> FetchReportsData(store),
                                        at |-> now]
                                  ELSE [stage |-> "failed", data |-> <<>>, at |-> 0])
    /\ UNCHANGED <<store, reports, appLoading, appError, removed, abandoned>>
    /\ UNCHANGED intakeVars
    /\ UNCHANGED rowVars
    /\ UNCHANGED panelVars

\* loadData after `await fetchReports()`: setReports(data), or setError in
\* the catch; setLoading(false) in the finally
LoadDataSettle ==
    \E f \in BagToSet(fetches) :
        /\ f.stage # "sent"
        /\ fetches' = fetches (-) One(f)
        /\ appLoading' = FALSE
        /\ IF f.stage = "ok"
           THEN /\ reports' = f.data
                /\ reportOf' = ReportsPushed(f.data, f.at)
                /\ appError' = appError
           ELSE /\ reports' = reports
                /\ reportOf' = reportOf
                /\ appError' = "fetch-error"
        /\ UNCHANGED <<store, docs, now, removed>>
        /\ RowsAfterRender(reports', FALSE, deleteState, deleteCalls)
        /\ AbandonedAfterRender(reports', FALSE)
        /\ UNCHANGED panelVars

\* the banner's "Retry Connection" button: loadData again
RetryClick ==
    /\ appError # "null"
    /\ BagCardinality(fetches) < MaxFetches
    /\ appLoading' = TRUE
    /\ appError' = "null"
    /\ fetches' = fetches (+) One(SentFetch)
    /\ UNCHANGED <<store, reports, removed>>
    /\ UNCHANGED intakeVars
    /\ RowsAfterRender(reports, TRUE, deleteState, deleteCalls)
    /\ AbandonedAfterRender(reports, TRUE)
    /\ PanelAfterRender(TRUE)

-----------------------------------------------------------------------------
(***************************************************************************)
(* ReportRow.handleDeleteClick, its timeout, and App.handleDelete with     *)
(* deleteReport.                                                           *)
(***************************************************************************)
\* ArmTimer with a seeded fault: the timeout is never set
ArmTimerNever(t) == t

\* setTimeout(cb, 3000): one more pending timeout with the full delay
ArmTimer(t) == [t EXCEPT ![TimerTicks] = @ + 1]

\* RevertUpdater with a seeded fault: the timeout resets the state whatever it is
RevertUpdaterAlways(prev) == "idle"

\* RevertUpdater with a seeded fault: the branches of the conditional swapped
RevertUpdaterSwapped(prev) == IF prev = "confirm" THEN prev ELSE "idle"

\* the timeout's updater: prev => prev === 'confirm' ? 'idle' : prev
RevertUpdater(prev) == IF prev = "confirm" THEN "idle" ELSE prev

\* DeleteReportStart with a seeded fault: no check of the id
DeleteReportStartUnchecked(id) == "sent"

\* deleteReport before its request: `if (!id) throw new Error("Invalid ID provided")`
DeleteReportStart(id) == IF id = "" THEN "rejected" ELSE "sent"

NewCall(x) == [id |-> x, stage |-> DeleteReportStart(x), live |-> TRUE]

\* handleDeleteClick, first branch: deleteState === 'idle'
ClickIdle(x) ==
    /\ deleteState[x] = "idle"
    /\ PendingTimers < MaxTimers
    /\ deleteState' = [deleteState EXCEPT ![x] = "confirm"]
    /\ timers' = [timers EXCEPT ![x] = ArmTimer(@)]
    /\ sinceConfirm' = [sinceConfirm EXCEPT ![x] = 0]
    /\ deleteCalls' = deleteCalls

\* handleDeleteClick, second branch: deleteState === 'confirm', up to the
\* await of onDelete(report.id), that is App.handleDelete up to its await of
\* deleteReport(id)
ClickConfirm(x) ==
    /\ deleteState[x] = "confirm"
    /\ BagSum(deleteCalls, {c \in DOMAIN deleteCalls : ~AbandonedCall(c)}) < MaxCalls
    /\ deleteState' = [deleteState EXCEPT ![x] = "deleting"]
    /\ deleteCalls' = deleteCalls (+) One(NewCall(x))
    /\ sinceConfirm' = [sinceConfirm EXCEPT ![x] = -1]
    /\ timers' = timers

\* a click on the row's delete button, which is disabled while
\* deleteState === 'deleting'
HandleDeleteClick(x) ==
    /\ Mounted(x)
    /\ deleteState[x] # "deleting"
    /\ \/ ClickIdle(x)
       \/ ClickConfirm(x)
    /\ UNCHANGED auditVars
    /\ UNCHANGED appVars
    /\ UNCHANGED panelVars

\* a pending timeout of row x whose delay has elapsed runs its callback
TimerFire(x) ==
    /\ timers[x][0] > 0
    /\ timers' = [timers EXCEPT ![x][0] = @ - 1]
    /\ deleteState' = [deleteState EXCEPT ![x] = RevertUpdater(@)]
    /\ UNCHANGED <<deleteCalls, sinceConfirm>>
    /\ UNCHANGED auditVars
    /\ UNCHANGED appVars
    /\ UNCHANGED panelVars

\* One second passes. A timeout whose delay has elapsed runs before the
\* next second does.
Tick ==
    /\ \E x \in AllIds : TimerCount(x) > 0
    /\ \A x \in AllIds : timers[x][0] = 0
    /\ timers' = [x \in AllIds |->
                    [k \in 0..TimerTicks |->
                        IF k < TimerTicks THEN timers[x][k + 1] ELSE 0]]
    /\ sinceConfirm' = [x \in AllIds |->
                          IF sinceConfirm[x] >= 0 /\ sinceConfirm[x] < TimerTicks
                          THEN sinceConfirm[x] + 1 ELSE sinceConfirm[x]]
    /\ UNCHANGED <<deleteState, deleteCalls>>
    /\ UNCHANGED auditVars
    /\ UNCHANGED appVars
    /\ UNCHANGED panelVars

\* what deleteDoc rejects with, by the answer of the store: the code and the
\* message of the error; "" is a message that is empty or missing
StoreError ==
    [denied |-> [code |-> "permission-denied",
                 message |-> "Missing or insufficient permissions."],
     failed |-> [code |-> "unavailable",
                 message |-> "The service is currently unavailable."],
     nomessage |-> [code |-> "unknown", message |-> ""]]

\* the store answers the deleteDoc of one deleteReport call: done, refused
\* with code 'permission-denied', failed otherwise with an error that has a
\* message, or failed with an error that has none
StoreServeDeleteOf(c) ==
    \E res \in {"ok"} \cup DOMAIN StoreError :
        /\ BagIn(c, deleteCalls)
        /\ c.stage = "sent"
        /\ deleteCalls' = (deleteCalls (-) One(c)) (+) One([c EXCEPT !.stage = res])
        /\ store' = IF res = "ok" THEN store \ {c.id} ELSE store
        /\ UNCHANGED <<reports, appLoading, appError, fetches, removed, abandoned>>
        /\ UNCHANGED intakeVars
        /\ UNCHANGED <<deleteState, timers, sinceConfirm>>
        /\ UNCHANGED auditVars
        /\ UNCHANGED panelVars

PermissionMessage == "Permission denied: You do not have rights to delete this report."

GenericMessage == "Failed to delete report"

\* DeleteReportError with a seeded fault: no branch for the permission code
DeleteReportErrorNoCode(c) ==
    IF c.stage = "rejected" THEN "Invalid ID provided"
    ELSE IF StoreError[c.stage].message # "" THEN StoreError[c.stage].message
    ELSE GenericMessage

\* the message of the Error deleteReport throws to handleDelete for a call
\* that did not resolve: the throw of the id check, else the catch:
\* `if (error.code === 'permission-denied') throw new Error("Permission denied: ...")`
\* `throw new Error(error.message || "Failed to delete report")`
DeleteReportError(c) ==
    IF c.stage = "rejected" THEN "Invalid ID provided"
    ELSE IF StoreError[c.stage].code = "permission-denied" THEN PermissionMessage
    ELSE IF StoreError[c.stage].message # "" THEN StoreError[c.stage].message
    ELSE GenericMessage

\* the text handleDelete alerts in its catch
HandleDeleteAlert(c) == <<"Failed to delete report: ", DeleteReportError(c)>>

StoreServeDelete == \E c \in BagToSet(deleteCalls) : StoreServeDeleteOf(c)

\* ReportsAfterDelete with a seeded fault: the report is filtered out whatever the
\* store answered
ReportsAfterDeleteAlways(rs, c) == SelectIds(rs, AllIds \ {c.id})

\* handleDelete after `await deleteReport(id)`:
\* setReports(prev => prev.filter(r => r.id !== id)) when it resolved,
\* nothing but the alert when it threw
ReportsAfterDelete(rs, c) ==
    IF c.stage = "ok" THEN SelectIds(rs, AllIds \ {c.id}) ELSE rs

\* DeleteStateAfterSettle with a seeded fault: the state is never reset
DeleteStateAfterSettleNever(ds, c) == ds

\* DeleteStateAfterSettle with a seeded fault: one state shared by all rows
DeleteStateAfterSettleAll(ds, c) ==
    IF c.live THEN [x \in AllIds |-> "idle"] ELSE ds

\* DeleteStateAfterSettle with a seeded fault: the state is reset only when the
\* deletion succeeded
DeleteStateAfterSettleOkOnly(ds, c) ==
    IF c.live /\ c.stage = "ok" THEN [ds EXCEPT ![c.id] = "idle"] ELSE ds

\* handleDeleteClick after `await onDelete(report.id)`: setDeleteState('idle')
\* (handleDelete catches every error, so the await never throws)
DeleteStateAfterSettle(ds, c) ==
    IF c.live THEN [ds EXCEPT ![c.id] = "idle"] ELSE ds

\* the continuation of one settled deleteReport call: handleDelete's, then
\* handleDeleteClick's
HandleDeleteSettleOf(c) ==
    /\ BagIn(c, deleteCalls)
    /\ c.stage # "sent"
    /\ reports' = ReportsAfterDelete(reports, c)
    /\ reportOf' = [x \in AllIds |-> IF x \in Range(reports') THEN reportOf[x] ELSE Null]
    /\ removed' = IF c.stage = "ok" /\ c.id \in Range(reports)
                  THEN removed \cup {c.id} ELSE removed
    /\ UNCHANGED <<store, appLoading, appError, fetches, docs, now>>
    /\ RowsAfterRender(reports', appLoading,
                       DeleteStateAfterSettle(deleteState, c),
                       deleteCalls (-) One(c))
    /\ AbandonedAfterRender(reports', appLoading)
    /\ UNCHANGED panelVars

HandleDeleteSettle == \E c \in BagToSet(deleteCalls) : HandleDeleteSettleOf(c)

Next ==
    \/ StoreServeFetch
    \/ LoadDataSettle
    \/ RetryClick
    \/ \E x \in AllIds : HandleDeleteClick(x)
    \/ \E x \in AllIds : TimerFire(x)
    \/ Tick
    \/ StoreServeDelete
    \/ HandleDeleteSettle

Spec == Init /\ [][Next]_vars

\* The App of a development build after this run: the first mount-time
\* load resolved and the second failed (the rows are shown under the error
\* banner), the operator requested the deletion of report x twice, and then
\* clicked "Retry Connection" while the deleteDoc of x was outstanding.  The
\* rows are unmounted; the call of x's former row is still outstanding.
InitReload ==
    /\ store = AllIds
    /\ docs = [x \in AllIds |-> FullDoc]
    /\ reports = FetchReportsData(AllIds)
    /\ reportOf = ReportsPushed(reports, 0)
    /\ now = 0
    /\ removed = {}
    /\ abandoned = {}
    /\ appLoading = TRUE
    /\ appError = "null"
    /\ fetches = One(SentFetch)
    /\ deleteState = [x \in AllIds |-> "idle"]
    /\ timers = [x \in AllIds |-> NoTimers]
    /\ sinceConfirm = [x \in AllIds |-> -1]
    /\ verifyState = [x \in AllIds |-> "idle"]
    /\ auditResult = [x \in AllIds |-> Null]
    /\ verifyCall = [x \in AllIds |-> NoCall]
    /\ \E x \in AllIds : deleteCalls = One([NewCall(x) EXCEPT !.live = FALSE])
    /\ PanelInit

SpecReload == InitReload /\ [][Next]_vars

\* App.handleDelete called with an empty id, up to its await of
\* deleteReport(id); no row is mounted for such an id
HandleDeleteNoId ==
    /\ BagCardinality(deleteCalls) < MaxCalls
    /\ deleteCalls' = deleteCalls
                      (+) One([id |-> "", stage |-> DeleteReportStart(""), live |-> FALSE])
    /\ UNCHANGED <<deleteState, timers, sinceConfirm>>
    /\ UNCHANGED auditVars
    /\ UNCHANGED appVars
    /\ UNCHANGED panelVars

-----------------------------------------------------------------------------
(***************************************************************************)
(* geminiService: analyzeReports, createAnalysisChat, sendChatMessage.     *)
(***************************************************************************)
\* the enum of the response schema
Severities == {"Critical", "High", "Medium", "Low"}

\* What the classification service may answer.  The schema is a request to
\* the service; what comes back is text.  A verdict is modelled by its
\* reportId and severity ("missing": the field is absent), the other five
\* fields being strings the code never inspects.
Items == [reportId : AllIds \cup {"r9"},
          severity : Severities \cup {"Urgent", "missing"}]

ItemSeqs == UNION {[1..n -> Items] : n \in 0..MaxItems}

\* the JSON values a response text may denote: a falsy value (null, false,
\* 0, ""), or an object with or without the two required fields
\* (hasPrioritized FALSE: the field prioritizedReports is absent)
JsonValues ==
    {Null} \cup [kind : {"object"},
                 strategicOverview : {"overview", "missing"},
                 hasPrioritized : {TRUE},
                 prioritizedReports : ItemSeqs]
           \cup [kind : {"object"},
                 strategicOverview : {"overview", "missing"},
                 hasPrioritized : {FALSE},
                 prioritizedReports : {<<>>}]

\* generateContent: rejects, or resolves to a response whose .text is
\* undefined or empty, or is a text that is or is not JSON
GenResponses ==
    {[kind |-> "error"], [kind |-> "notext"], [kind |-> "text", syntax |-> "garbage"]}
    \cup {[kind |-> "text", syntax |-> "json", value |-> v] : v \in JsonValues}

\* JSON.parse: a SyntaxError on text that is not JSON, else the value the
\* text denotes
JsonParse(r) ==
    IF r.syntax = "json" THEN [kind |-> "return", value |-> r.value]
    ELSE [kind |-> "throw", value |-> Null]

\* AnalyzeStart with a seeded fault: no check of the batch's length
AnalyzeStartUnguarded(batch) ==
    [batch |-> batch, stage |-> "sent", requested |-> TRUE,
     response |-> [kind |-> "none"]]

\* analyzeReports before its request: `if (reports.length === 0) return null`
AnalyzeStart(batch) ==
    IF Len(batch) = 0
    THEN [batch |-> batch, stage |-> "responded", requested |-> FALSE,
          response |-> [kind |-> "none"]]
    ELSE [batch |-> batch, stage |-> "sent", requested |-> TRUE,
          response |-> [kind |-> "none"]]

\* analyzeReports after its request: the body of the try and the catch that
\* rethrows.  `JSON.parse(response.text) as AnalysisResult` checks nothing.
AnalyzeOutcome(call) ==
    IF ~call.requested THEN [kind |-> "return", value |-> Null]
    ELSE IF call.response.kind = "error" THEN [kind |-> "throw", value |-> Null]
    ELSE IF call.response.kind = "notext" THEN [kind |-> "return", value |-> Null]
    ELSE JsonParse(call.response)

\* createAnalysisChat(reports, analysis): reports.map reads
\* analysis.prioritizedReports.find, a TypeError when the field is absent
\* (reports is not empty here); else a handle whose system instruction is
\* built from these reports and this analysis
CreateAnalysisChat(batch, result) ==
    IF Len(batch) > 0 /\ ~result.hasPrioritized
    THEN [kind |-> "throw", value |-> Null]
    ELSE [kind |-> "return",
          value |-> [kind |-> "chat", batch |-> batch, analysis |-> result]]

\* chat.sendMessage: rejects, or resolves to a result with or without text
ChatResponses == {[kind |-> "error"], [kind |-> "text", text |-> "reply"],
                  [kind |-> "text", text |-> ""]}

\* sendChatMessage: `return result.text || "I couldn't generate a response."`,
\* and the catch that rethrows
SendChatOutcome(r) ==
    IF r.kind = "error" THEN [kind |-> "throw", value |-> ""]
    ELSE [kind |-> "return",
          value |-> IF r.text = "" THEN "I couldn't generate a response." ELSE r.text]

-----------------------------------------------------------------------------
(***************************************************************************)
(* geminiService.verifyReportImage and ReportRow.handleVerifyClick.        *)
(***************************************************************************)
RECURSIVE Length(_)
\* String.prototype.length of a text given by its tokens
Length(toks) == IF toks = <<>> THEN 0 ELSE TokLen[Head(toks)] + Length(Tail(toks))

\* the least index after `from` of a token of S, 0 when there is none
IndexAfter(toks, S, from) ==
    LET I == {i \in (from + 1)..Len(toks) : toks[i] \in S}
    IN  IF I = {} THEN 0 ELSE CHOOSE i \in I : \A j \in I : i <= j

\* the tokens in which the text 'base64,' occurs
Markers == {"base64,", ";base64,"}

\* String.prototype.includes, for the two texts the code looks for
IncludesData(toks) == IndexAfter(toks, {"data:"}, 0) # 0

IncludesMarker(toks) == IndexAfter(toks, Markers, 0) # 0

\* imageBase64.match(/data:(.*?);base64,(.*)/): the match starts at the
\* first 'data:' that a ';base64,' follows, the first group runs up to the
\* first ';base64,' after it and the second group to the end
RegexMatch(toks) ==
    LET i == IndexAfter(toks, {"data:"}, 0)
        j == IF i = 0 THEN 0 ELSE IndexAfter(toks, {";base64,"}, i)
    IN  IF j = 0 THEN [matched |-> FALSE, g1 |-> <<>>, g2 |-> <<>>]
        ELSE [matched |-> TRUE, g1 |-> SubSeq(toks, i + 1, j - 1),
              g2 |-> SubSeq(toks, j + 1, Len(toks))]

\* imageBase64.split('base64,')[1]: the text between the first occurrence
\* of the marker and the next one
SplitSecond(toks) ==
    LET a == IndexAfter(toks, Markers, 0)
        b == IndexAfter(toks, Markers, a)
    IN  IF b = 0 THEN SubSeq(toks, a + 1, Len(toks))
        ELSE SubSeq(toks, a + 1, b - 1)
             \o (IF toks[b] = ";base64," THEN <<";">> ELSE <<>>)

\* "1. Detect MIME Type and extract Base64 data"
DetectMedia(toks) ==
    IF IncludesData(toks) /\ IncludesMarker(toks)
    THEN IF RegexMatch(toks).matched
         THEN [mimeType |-> RegexMatch(toks).g1, data |-> RegexMatch(toks).g2]
         ELSE [mimeType |-> <<"image/jpeg">>, data |-> toks]
    ELSE IF IncludesMarker(toks)
    THEN [mimeType |-> <<"image/jpeg">>, data |-> SplitSecond(toks)]
    ELSE [mimeType |-> <<"image/jpeg">>, data |-> toks]

NoRequest == [mimeType |-> <<>>, data |-> <<>>]

\* VerifyReportImageStart with a seeded fault: no check of the image
VerifyReportImageStartUnguarded(report) ==
    [image |-> report.imageBase64, stage |-> "sent", requested |-> TRUE,
     request |-> DetectMedia(report.imageBase64.toks),
     response |-> [kind |-> "none"]]

\* verifyReportImage before its request:
\* `if (!report.imageBase64 || report.imageBase64.length < 50) throw ...`,
\* else the inline data of the request
VerifyReportImageStart(report) ==
    IF ~Truthy(report.imageBase64) \/ Length(report.imageBase64.toks) < MinImageLength
    THEN [image |-> report.imageBase64, stage |-> "responded", requested |-> FALSE,
          request |-> NoRequest, response |-> [kind |-> "none"]]
    ELSE [image |-> report.imageBase64, stage |-> "sent", requested |-> TRUE,
          request |-> DetectMedia(report.imageBase64.toks),
          response |-> [kind |-> "none"]]

ErrNoImage == [kind |-> "error", message |-> "No valid image to verify"]

ErrAudit == [kind |-> "error", message |-> "audit service"]

\* the JSON values a response of the audit service may denote
AuditValues ==
    {Null, [kind |-> "object", matchesDescription |-> TRUE, isRelevant |-> TRUE,
            findings |-> <<"f1", "f2", "f3">>]}

AuditResponses ==
    {[kind |-> "error"], [kind |-> "notext"], [kind |-> "text", syntax |-> "garbage"]}
    \cup {[kind |-> "text", syntax |-> "json", value |-> v] : v \in AuditValues}

\* verifyReportImage after its request: the body of the try and the catch
\* that rethrows; before it, the throw of the precondition
VerifyOutcome(call) ==
    IF ~call.requested THEN [kind |-> "throw", value |-> ErrNoImage]
    ELSE IF call.response.kind = "error" THEN [kind |-> "throw", value |-> ErrAudit]
    ELSE IF call.response.kind = "notext" THEN [kind |-> "return", value |-> Null]
    ELSE JsonParse(call.response)

\* handleVerifyClick up to `await verifyReportImage(report)`.  The button
\* is rendered while verifyState === 'idle'.
HandleVerifyClick(x) ==
    /\ Mounted(x)
    /\ verifyState[x] = "idle"
    /\ verifyCall[x] = NoCall
    /\ IF ~Truthy(reportOf[x].imageBase64)
       THEN UNCHANGED auditVars
       ELSE /\ verifyState' = [verifyState EXCEPT ![x] = "loading"]
            /\ verifyCall' = [verifyCall EXCEPT ![x] = VerifyReportImageStart(reportOf[x])]
            /\ auditResult' = auditResult
    /\ UNCHANGED <<deleteState, timers, deleteCalls, sinceConfirm>>
    /\ UNCHANGED appVars
    /\ UNCHANGED panelVars

\* the audit service answers the request of verifyReportImage
AuditServiceRespond(x) ==
    /\ verifyCall[x] # NoCall
    /\ verifyCall[x].stage = "sent"
    /\ \E r \in AuditResponses :
         verifyCall' = [verifyCall EXCEPT ![x] = [@ EXCEPT !.stage = "responded",
                                                            !.response = r]]
    /\ UNCHANGED <<verifyState, auditResult>>
    /\ UNCHANGED <<deleteState, timers, deleteCalls, sinceConfirm>>
    /\ UNCHANGED appVars
    /\ UNCHANGED panelVars

\* setVerifyState('done') in the try, setVerifyState('idle') in the catch
VerifyStateAfter(out) == IF out.kind = "return" THEN "done" ELSE "idle"

\* handleVerifyClick after `await verifyReportImage(report)`
HandleVerifySettle(x) ==
    /\ verifyCall[x] # NoCall
    /\ verifyCall[x].stage = "responded"
    /\ LET out == VerifyOutcome(verifyCall[x])
       IN  /\ auditResult' = [auditResult EXCEPT ![x] =
                                 IF out.kind = "return" THEN out.value ELSE @]
           /\ verifyState' = [verifyState EXCEPT ![x] = VerifyStateAfter(out)]
    /\ verifyCall' = [verifyCall EXCEPT ![x] = NoCall]
    /\ UNCHANGED <<deleteState, timers, deleteCalls, sinceConfirm>>
    /\ UNCHANGED appVars
    /\ UNCHANGED panelVars

\* a service answers the last request of kind k in flight whose component
\* is unmounted: the continuation runs and changes nothing
AbandonedRespond(k) ==
    /\ k \in abandoned
    /\ abandoned' = abandoned \ {k}
    /\ UNCHANGED <<store, reports, appLoading, appError, fetches, removed>>
    /\ UNCHANGED intakeVars
    /\ UNCHANGED rowVars
    /\ UNCHANGED panelVars

\* time passes
ClockAdvance ==
    /\ now < MaxClock
    /\ now' = now + 1
    /\ UNCHANGED <<store, reports, appLoading, appError, fetches, docs, reportOf,
                   removed, abandoned>>
    /\ UNCHANGED rowVars
    /\ UNCHANGED panelVars

\* the records the collection holds in the runs of the intake: every
\* combination of missing fields, the placeholder, and images shorter and
\* longer than the least usable length
IntakeDocs ==
    PresenceDocs
    \cup {[FullDoc EXCEPT !.imageBase64 = i] :
             i \in {Placeholder, Str(<<"data:", "image/png">>),
                    Str(<<"data:", "image/png", ";base64,", "<payload>">>)}}

InitIntake == \E d \in IntakeDocs : InitWith([x \in AllIds |-> IF x = "r1" THEN d ELSE FullDoc])

NextIntake ==
    \/ StoreServeFetch
    \/ LoadDataSettle
    \/ RetryClick
    \/ ClockAdvance
    \/ \E x \in AllIds : HandleVerifyClick(x)
    \/ \E x \in AllIds : AuditServiceRespond(x)
    \/ \E x \in AllIds : HandleVerifySettle(x)
    \/ \E x \in AllIds : AbandonedRespond(x)

SpecIntake == InitIntake /\ [][NextIntake]_vars

(***************************************************************************)
(* The normalization and the media detection as functions of one raw       *)
(* record: the record is read, normalized at the current instant, and the  *)
(* request of verifyReportImage is built from the Report.                  *)
(***************************************************************************)
InitNormalize ==
    \E d \in RawRecords : InitWith([x \in AllIds |-> IF x = "r1" THEN d ELSE FullDoc])

ApplyNormalize ==
    /\ reportOf' = [reportOf EXCEPT !["r1"] = Normalize("r1", docs["r1"], now)]
    /\ UNCHANGED <<store, reports, appLoading, appError, fetches, docs, now,
                   removed, abandoned>>
    /\ UNCHANGED rowVars
    /\ UNCHANGED panelVars

ApplyVerifyStart ==
    /\ reportOf["r1"] # Null
    /\ verifyCall' = [verifyCall EXCEPT !["r1"] = VerifyReportImageStart(reportOf["r1"])]
    /\ UNCHANGED <<verifyState, auditResult>>
    /\ UNCHANGED <<deleteState, timers, deleteCalls, sinceConfirm>>
    /\ UNCHANGED appVars
    /\ UNCHANGED panelVars

NextNormalize ==
    \/ ApplyNormalize
    \/ ApplyVerifyStart
    \/ ClockAdvance

SpecNormalize == InitNormalize /\ [][NextNormalize]_vars

-----------------------------------------------------------------------------
(***************************************************************************)
(* SolutionPanel: handleGenerateSolution and handleSendChat.               *)
(***************************************************************************)
ErrEmpty == "AI returned empty results."
ErrFailed == "Unable to generate strategic plan. Please check connectivity and try again."
Greeting ==
    [role |-> "model",
     text |-> "I've analyzed the reports. I can help you with specific details, resource contacts, or drafting public announcements. What do you need?"]
Apology == "Sorry, I encountered an error responding to that."

\* The "Generate Analysis" button is rendered when there is no analysis and
\* no error, the "Try Again" button when there is an error; neither while
\* loading.
GenerateButtonShown == ~loading /\ (error # "null" \/ analysis = Null)

\* handleGenerateSolution up to `await analyzeReports(reports)`
GenerateClick ==
    /\ ~appLoading
    /\ GenerateButtonShown
    /\ genCall = NoCall
    /\ loading' = TRUE
    /\ error' = "null"
    /\ genCall' = AnalyzeStart(reports)
    /\ UNCHANGED <<analysis, chatRef, messages, chatLoading, chatCall, analyzedBatch, lastGen>>
    /\ UNCHANGED appVars
    /\ UNCHANGED rowVars

\* the classification service answers the request of analyzeReports
GenServiceRespond ==
    /\ genCall.stage = "sent"
    /\ \E r \in GenResponses :
         genCall' = [genCall EXCEPT !.stage = "responded", !.response = r]
    /\ UNCHANGED <<analysis, loading, error, chatRef, messages, chatLoading,
                   chatCall, analyzedBatch, lastGen>>
    /\ UNCHANGED appVars
    /\ UNCHANGED rowVars

\* ErrorAfterGenerate with a seeded fault: the empty result reported with the
\* message of the catch
ErrorAfterGenerateConflated(out, chat) ==
    IF out.kind = "throw" \/ out.value = Null \/ chat.kind = "throw"
    THEN ErrFailed ELSE "null"

\* the message handleGenerateSolution puts in `error`: the else of
\* `if (result)`, and the catch
ErrorAfterGenerate(out, chat) ==
    IF out.kind = "throw" THEN ErrFailed
    ELSE IF out.value = Null THEN ErrEmpty
    ELSE IF chat.kind = "throw" THEN ErrFailed
    ELSE "null"

\* handleGenerateSolution after `await analyzeReports(reports)`:
\* setAnalysis(result), then createAnalysisChat and setMessages, with the
\* catch around all three; setLoading(false) in the finally
GenerateSettle ==
    /\ genCall.stage = "responded"
    /\ LET out == AnalyzeOutcome(genCall)
           installs == out.kind = "return" /\ out.value # Null
           chat == IF installs THEN CreateAnalysisChat(genCall.batch, out.value)
                   ELSE [kind |-> "none", value |-> Null]
       IN  /\ analysis' = IF installs THEN out.value ELSE analysis
           /\ analyzedBatch' = IF installs THEN genCall.batch ELSE analyzedBatch
           /\ chatRef' = IF installs /\ chat.kind = "return" THEN chat.value ELSE chatRef
           /\ messages' = IF installs /\ chat.kind = "return" THEN <<Greeting>> ELSE messages
           /\ error' = ErrorAfterGenerate(out, chat)
    /\ loading' = FALSE
    /\ genCall' = NoCall
    /\ lastGen' = genCall
    /\ UNCHANGED <<chatLoading, chatCall>>
    /\ UNCHANGED appVars
    /\ UNCHANGED rowVars

\* AppendMessage with a seeded fault: the new message is put in front
AppendMessageInFront(prev, m) == <<m>> \o prev

\* the updater of setMessages: prev => [...prev, m]
AppendMessage(prev, m) == Append(prev, m)

\* what the operator may have typed in the input
Inputs == {"", " ", "question"}

\* String.prototype.trim, on the inputs of the model
Trim(inp) == IF inp = " " THEN "" ELSE inp

\* handleSendChat up to `await sendChatMessage(...)`.  The form is rendered
\* when analysis is set, and its input and button are disabled while
\* chatLoading.
HandleSendChat(inp) ==
    /\ ~appLoading
    /\ analysis # Null
    /\ ~chatLoading
    /\ Len(messages) < 1 + 2 * MaxTurns
    /\ IF Trim(inp) = "" \/ chatRef = Null
       THEN UNCHANGED <<messages, chatLoading, chatCall>>
       ELSE /\ messages' = AppendMessage(messages, [role |-> "user", text |-> inp])
            /\ chatLoading' = TRUE
            /\ chatCall' = [stage |-> "sent", response |-> [kind |-> "none"]]
    /\ UNCHANGED <<analysis, loading, error, chatRef, genCall, analyzedBatch, lastGen>>
    /\ UNCHANGED appVars
    /\ UNCHANGED rowVars

\* the chat service answers the sendMessage of sendChatMessage
ChatServiceRespond ==
    /\ chatCall.stage = "sent"
    /\ \E r \in ChatResponses :
         chatCall' = [stage |-> "responded", response |-> r]
    /\ UNCHANGED <<analysis, loading, error, chatRef, messages, chatLoading,
                   genCall, analyzedBatch, lastGen>>
    /\ UNCHANGED appVars
    /\ UNCHANGED rowVars

\* MessageAfterChat with a seeded fault: the reply is logged with the
\* operator's role
MessageAfterChatAsUser(out) ==
    IF out.kind = "return" THEN [role |-> "user", text |-> out.value]
    ELSE [role |-> "model", text |-> Apology]

\* MessageAfterChat with a seeded fault: the catch appends the no-text fallback
MessageAfterChatFallback(out) ==
    IF out.kind = "return" THEN [role |-> "model", text |-> out.value]
    ELSE [role |-> "model", text |-> "I couldn't generate a response."]

\* the message handleSendChat appends after the await: the reply in the
\* try, the apology in the catch
MessageAfterChat(out) ==
    IF out.kind = "return" THEN [role |-> "model", text |-> out.value]
    ELSE [role |-> "model", text |-> Apology]

\* handleSendChat after `await sendChatMessage(...)`
HandleSendChatSettle ==
    /\ chatCall.stage = "responded"
    /\ messages' = AppendMessage(messages, MessageAfterChat(SendChatOutcome(chatCall.response)))
    /\ chatLoading' = FALSE
    /\ chatCall' = NoCall
    /\ UNCHANGED <<analysis, loading, error, chatRef, genCall, analyzedBatch, lastGen>>
    /\ UNCHANGED appVars
    /\ UNCHANGED rowVars

\* the working sets a load can produce
Batches == {FetchReportsData(S) : S \in SUBSET AllIds}

\* the panel once App has loaded: loadData has settled with some listing,
\* and the second load of a development build has settled too, with the
\* same listing or with a failure
InitPanel ==
    /\ reports \in Batches
    /\ store = Range(reports)
    /\ docs = [x \in AllIds |-> FullDoc]
    /\ now = 0
    /\ reportOf = ReportsPushed(reports, 0)
    /\ removed = {}
    /\ abandoned = {}
    /\ appLoading = FALSE
    /\ appError \in {"null", "fetch-error"}
    /\ fetches = EmptyBag
    /\ RowsInit
    /\ PanelInit

NextPanel ==
    \/ StoreServeFetch
    \/ LoadDataSettle
    \/ RetryClick
    \/ GenerateClick
    \/ GenServiceRespond
    \/ GenerateSettle
    \/ \E inp \in Inputs : HandleSendChat(inp)
    \/ ChatServiceRespond
    \/ HandleSendChatSettle
    \/ AbandonedRespond("analyze")

SpecPanel == InitPanel /\ [][NextPanel]_vars

\* The rows of an App that has loaded, with no reload: the operations of the
\* deletion workflow alone
NextRows ==
    \/ \E x \in AllIds : HandleDeleteClick(x)
    \/ \E x \in AllIds : TimerFire(x)
    \/ Tick
    \/ StoreServeDelete
    \/ HandleDeleteSettle

\* The scheduling the deletion workflow relies on: time passes, a timeout
\* whose delay has elapsed runs its callback, the store answers the
\* deleteDoc of every mounted row, and the continuation of an answered call
\* runs.
SpecLive ==
    /\ InitPanel
    /\ [][NextRows]_vars
    /\ WF_vars(Tick)
    /\ \A x \in AllIds : WF_vars(TimerFire(x))
    /\ \A x \in AllIds : WF_vars(StoreServeDeleteOf(NewCall(x)))
    /\ \A x \in AllIds :
          WF_vars(\E c \in BagToSet(deleteCalls) :
                     c.id = x /\ c.live /\ HandleDeleteSettleOf(c))

\* The rows of an App that has loaded, and handleDelete called with an
\* empty id
NextNoId ==
    \/ NextRows
    \/ HandleDeleteNoId

SpecNoId == InitPanel /\ [][NextNoId]_vars

TypeOK ==
    /\ store \subseteq AllIds
    /\ appLoading \in BOOLEAN
    /\ \A x \in AllIds : deleteState[x] \in {"idle", "confirm", "deleting"}
    /\ \A x \in AllIds : sinceConfirm[x] \in -1..TimerTicks
    /\ PendingTimers <= MaxTimers
    /\ \A x \in AllIds : ~Mounted(x) => deleteState[x] = "idle" /\ TimerCount(x) = 0

-----------------------------------------------------------------------------
(***************************************************************************)
(* Deletion workflow (checked under Spec).                                 *)
(***************************************************************************)
\* a call of the mounted row of x is outstanding
OwnCall(x, calls) == \E c \in BagToSet(calls) : c.id = x /\ c.live

\* C1: a delete request for X that arrives less than 3 seconds after the
\* request that moved X from idle to confirming finds X confirming, moves it
\* to deleting and issues the store delete for X, in every round.
C1_SecondRequestDeletes ==
    [][\A x \in AllIds :
          (HandleDeleteClick(x) /\ sinceConfirm[x] >= 0 /\ sinceConfirm[x] < TimerTicks)
          => /\ deleteState[x] = "confirm"
             /\ deleteState'[x] = "deleting"
             /\ BagIn(NewCall(x), deleteCalls')]_vars

\* C2: a delete request on X while X is idle moves X to confirming, arms one
\* timeout of the full 3 seconds, issues no store delete call and leaves the
\* working set (and the store) unchanged.
C2_FirstRequestArms ==
    [][\A x \in AllIds :
          (HandleDeleteClick(x) /\ deleteState[x] = "idle")
          => /\ deleteState'[x] = "confirm"
             /\ timers'[x][TimerTicks] = timers[x][TimerTicks] + 1
             /\ \A k \in 0..(TimerTicks - 1) : timers'[x][k] = timers[x][k]
             /\ deleteCalls' = deleteCalls
             /\ reports' = reports
             /\ store' = store]_vars

\* C2 witness: X has just been moved to confirming by a first request, its
\* timeout is pending with the full delay and no store call was issued.
C2_Witness ==
    \E x \in AllIds :
        /\ deleteState[x] = "confirm"
        /\ sinceConfirm[x] = 0
        /\ timers[x][TimerTicks] = 1
        /\ deleteCalls = EmptyBag
        /\ x \in Range(reports)

\* C3: while X is confirming no store delete call of this round exists and
\* X is in the working set; X is not still confirming once 3 seconds have
\* passed since the request unless the timeout that is due is about to run;
\* and the timeout, running on a confirming X, moves X to idle, issues no
\* store call and leaves the working set, X included, as it is.
C3_TimerReverts ==
    [][\A x \in AllIds :
          /\ (TimerFire(x) /\ deleteState[x] = "confirm")
             => /\ deleteState'[x] = "idle"
                /\ deleteCalls' = deleteCalls
                /\ store' = store
                /\ reports' = reports
                /\ x \in Range(reports')
          /\ (deleteState'[x] = "confirm")
             => /\ ~OwnCall(x, deleteCalls')
                /\ x \in Range(reports')
                /\ sinceConfirm'[x] \in 0..TimerTicks
                /\ (sinceConfirm'[x] = TimerTicks => timers'[x][0] > 0)]_vars

\* C3 witness: 3 seconds after the request that moved X to confirming, with
\* no other request since, X is idle again, present, and no store call was
\* made.
C3_Witness ==
    \E x \in AllIds :
        /\ sinceConfirm[x] = TimerTicks
        /\ deleteState[x] = "idle"
        /\ x \in Range(reports)
        /\ x \in store
        /\ deleteCalls = EmptyBag

\* C4: X leaves the working set only once the store has deleted X; the
\* continuation of a store delete that succeeded removes exactly X, keeping
\* the other reports and their order; the continuation of one that failed
\* (permission-denied or any other error) or was rejected changes nothing.
C4_RemovalOnlyOnSuccess ==
    [][/\ \A x \in AllIds :
             (x \in Range(reports) /\ x \notin Range(reports')) => x \notin store'
       /\ \A c \in BagToSet(deleteCalls) :
             \/ IF c.stage = "ok"
                THEN /\ c.id \notin Range(reports')
                     /\ reports' = SelectIds(reports, Range(reports) \ {c.id})
                ELSE reports' = reports
             \/ ~HandleDeleteSettleOf(c)]_vars

\* C4 witness: the store has deleted X, X is gone from the working set and
\* another report is still shown.
C4_Witness ==
    \E x \in AllIds :
        /\ x \notin store
        /\ x \notin Range(reports)
        /\ reports # <<>>
        /\ ~appLoading
        /\ deleteCalls = EmptyBag
        /\ fetches = EmptyBag

\* C5: a row is in deleting only while its own store delete call is
\* outstanding, and the continuation of that call, whether it succeeded or
\* failed, leaves the row idle.
C5_SettleReturnsToIdle ==
    [][/\ \A x \in AllIds : deleteState'[x] = "deleting" => OwnCall(x, deleteCalls')
       /\ \A c \in BagToSet(deleteCalls) :
             (c.live /\ deleteState'[c.id] # "idle") => ~HandleDeleteSettleOf(c)]_vars

\* C5 witness: the row of X went through confirming and deleting (its
\* timeout is still pending and its latest request was the second one), the
\* call failed, and the row is idle with X still shown.
C5_Witness ==
    \E x \in AllIds :
        /\ Mounted(x)
        /\ deleteState[x] = "idle"
        /\ sinceConfirm[x] = -1
        /\ TimerCount(x) > 0
        /\ ~OwnCall(x, deleteCalls)

-----------------------------------------------------------------------------
(***************************************************************************)
(* Triage analyzer and consultation session (checked under SpecPanel).     *)
(***************************************************************************)
\* the response schema of analyzeReports, as a predicate on a parsed value:
\* both required fields present, every verdict with a severity of the enum
ConformsToSchema(v) ==
    /\ v.kind = "object"
    /\ v.strategicOverview # "missing"
    /\ v.hasPrioritized
    /\ \A i \in 1..Len(v.prioritizedReports) :
          v.prioritizedReports[i].severity \in Severities

\* a response that is present: it carries text
PresentNonConforming(r) ==
    /\ r.kind = "text"
    /\ (r.syntax = "json" => r.value # Null /\ ~ConformsToSchema(r.value))

\* C6: analyzeReports called with an empty batch issues no request to the
\* classification service and returns null without raising.
C6_EmptyBatchAbsent ==
    (genCall # NoCall /\ Len(genCall.batch) = 0)
    => /\ ~genCall.requested
       /\ genCall.stage = "responded"
       /\ AnalyzeOutcome(genCall) = [kind |-> "return", value |-> Null]

\* C6 witness: Generate was clicked with an empty working set.
C6_Witness ==
    /\ genCall # NoCall
    /\ Len(genCall.batch) = 0
    /\ loading

\* C7: a present response that does not conform to the schema makes
\* analyzeReports fail, and no AnalysisResult built from such a response is
\* ever installed in the panel.
C7_MalformedRejected ==
    /\ (genCall.stage = "responded" /\ genCall.requested
        /\ PresentNonConforming(genCall.response))
       => AnalyzeOutcome(genCall).kind = "throw"
    /\ analysis # Null => ConformsToSchema(analysis)

\* C8: every SolutionItem of the AnalysisResult the panel holds has the id
\* of a report of the analyzed batch and a severity of the enum.
C8_ItemsReferenceBatch ==
    analysis # Null
    => \A i \in 1..Len(analysis.prioritizedReports) :
          /\ analysis.prioritizedReports[i].reportId \in Range(analyzedBatch)
          /\ analysis.prioritizedReports[i].severity \in Severities

\* C9: for a non-empty batch, a response without text makes analyzeReports
\* return null without raising and a failed service call makes it throw;
\* handleGenerateSolution reports the first as "AI returned empty results."
\* and the second with the connectivity message, and in both it installs no
\* analysis, no chat handle and no message log.
C9_EmptyAndFailureDistinct ==
    [][(GenerateSettle /\ genCall.requested
        /\ genCall.response.kind \in {"notext", "error"})
       => /\ Len(genCall.batch) > 0
          /\ UNCHANGED <<analysis, chatRef, messages>>
          /\ (genCall.response.kind = "notext"
              => /\ AnalyzeOutcome(genCall) = [kind |-> "return", value |-> Null]
                 /\ error' = ErrEmpty
                 /\ error' # ErrFailed)
          /\ (genCall.response.kind = "error"
              => /\ AnalyzeOutcome(genCall).kind = "throw"
                 /\ error' = ErrFailed
                 /\ error' # ErrEmpty)]_vars

\* C9 witness: the request for a non-empty batch settled on a response
\* without text; the panel shows the empty-results message and holds no
\* analysis and no session.
C9_Witness ==
    /\ lastGen # NoCall
    /\ lastGen.requested
    /\ lastGen.response.kind = "notext"
    /\ genCall = NoCall
    /\ ~loading
    /\ error = ErrEmpty
    /\ analysis = Null
    /\ chatRef = Null
    /\ messages = <<>>

\* C10 as stated: when the chat send fails at the service, no message with
\* role model is appended to the log for that turn.
C10_NoModelMessageOnFailure ==
    [][(HandleSendChatSettle /\ chatCall.response.kind = "error")
       => messages' = messages]_vars

\* C10 as amended: when the chat send fails at the service, sendChatMessage
\* throws, and handleSendChat appends exactly one message, the fixed apology
\* with role model, after the operator's user message, which stays the
\* message before it; nothing else of the log changes.
C10_ApologyAppendedOnFailure ==
    [][(HandleSendChatSettle /\ chatCall.response.kind = "error")
       => /\ SendChatOutcome(chatCall.response).kind = "throw"
          /\ messages' = Append(messages, [role |-> "model", text |-> Apology])
          /\ messages[Len(messages)].role = "user"
          /\ messages'[Len(messages)] = messages[Len(messages)]]_vars

\* C10 witness: a failed turn has settled: the log ends with the operator's
\* message followed by the apology.
C10_Witness ==
    /\ Len(messages) >= 3
    /\ ~chatLoading
    /\ messages[Len(messages)] = [role |-> "model", text |-> Apology]
    /\ messages[Len(messages) - 1].role = "user"

\* C11: the panel holds an AnalysisResult exactly when it holds a chat
\* handle, and a chat handle exactly when the message log is not empty; the
\* handle it holds was created from the analysis it holds and from the batch
\* that was analyzed.
C11_SessionTogether ==
    /\ (analysis # Null) <=> (chatRef # Null)
    /\ (chatRef # Null) <=> (messages # <<>>)
    /\ chatRef # Null => chatRef.analysis = analysis /\ chatRef.batch = analyzedBatch

\* a prefix of a sequence
IsPrefix(s, t) == Len(s) <= Len(t) /\ SubSeq(t, 1, Len(s)) = s

\* C12: while the AnalysisResult held stays the same, a step leaves the
\* message log as it is or adds one message at its end: every message keeps
\* its position and content.
C12_LogAppendOnly ==
    [][analysis' = analysis
       => /\ IsPrefix(messages, messages')
          /\ Len(messages') <= Len(messages) + 1]_vars

\* C12 witness: a session of two full turns: the greeting, then twice a
\* user message followed by a reply, the second turn having failed.
C12_Witness ==
    /\ Len(messages) = 5
    /\ messages[1] = Greeting
    /\ messages[2].role = "user"
    /\ messages[3] = [role |-> "model", text |-> "reply"]
    /\ messages[4].role = "user"
    /\ messages[5] = [role |-> "model", text |-> Apology]
    /\ ~chatLoading
    /\ analysis # Null

-----------------------------------------------------------------------------
(***************************************************************************)
(* Image verification and intake (checked under SpecIntake).               *)
(***************************************************************************)
\* C13: for a report whose image is empty or shorter than 50 characters,
\* verifyReportImage throws the 'No valid image to verify' error and builds
\* no request; handleVerifyClick on an empty image changes nothing, and on a
\* short one its call carries no request and its continuation leaves the row
\* with verifyState idle and no audit result.
C13_NoImageRejected ==
    [][\A x \in AllIds :
          /\ (Mounted(x)
              /\ (reportOf[x].imageBase64.toks = <<>>
                  \/ Length(reportOf[x].imageBase64.toks) < MinImageLength))
             => /\ ~VerifyReportImageStart(reportOf[x]).requested
                /\ VerifyOutcome(VerifyReportImageStart(reportOf[x]))
                      = [kind |-> "throw", value |-> ErrNoImage]
          /\ (HandleVerifyClick(x) /\ reportOf[x].imageBase64.toks = <<>>)
             => /\ verifyState'[x] = "idle"
                /\ auditResult'[x] = Null
                /\ verifyCall'[x] = NoCall
          /\ (HandleVerifyClick(x) /\ reportOf[x].imageBase64.toks # <<>>
              /\ Length(reportOf[x].imageBase64.toks) < MinImageLength)
             => /\ ~verifyCall'[x].requested
                /\ verifyCall'[x].stage # "sent"
          /\ (HandleVerifySettle(x)
              /\ Length(verifyCall[x].image.toks) < MinImageLength)
             => /\ ~verifyCall[x].requested
                /\ verifyState'[x] = "idle"
                /\ auditResult'[x] = Null]_vars

\* C13 witness: Verify was clicked on a row whose image is not empty but
\* shorter than 50 characters: the call was rejected without a request and
\* its continuation is about to run.
C13_Witness ==
    \E x \in AllIds :
        /\ Mounted(x)
        /\ verifyState[x] = "loading"
        /\ verifyCall[x] # NoCall
        /\ ~verifyCall[x].requested
        /\ verifyCall[x].image.toks # <<>>
        /\ Length(verifyCall[x].image.toks) < MinImageLength

\* C17: a record whose image field is the placeholder '...' gets an empty
\* imageBase64; no Report of the working set has the placeholder as its
\* image, and no call of verifyReportImage is made with it or carries it in
\* its request.
C17_PlaceholderNeverPassed ==
    /\ \A x \in AllIds :
          reportOf[x] # Null
          => /\ reportOf[x].imageBase64 # Placeholder
             /\ (docs[x].imageBase64 = Placeholder
                 => reportOf[x].imageBase64 = Str(<<>>))
    /\ \A x \in AllIds :
          verifyCall[x] # NoCall
          => /\ verifyCall[x].image # Placeholder
             /\ verifyCall[x].request.data # <<"...">>

\* C17 witness: a record with the placeholder image is shown in the working
\* set, its image empty.
C17_Witness ==
    \E x \in AllIds :
        /\ Mounted(x)
        /\ docs[x].imageBase64 = Placeholder
        /\ reportOf[x].imageBase64 = Str(<<>>)

\* C18: a store listing that succeeds yields the ids of the records of the
\* store, one each, in the store's order; loadData then installs one Report
\* per id, with that id and every field filled (defaults where the record
\* lacks the field); a listing fails only by the store's failure, and
\* loadData then leaves the working set as it is.
C18_OneReportPerRecord ==
    [][/\ \A f \in BagToSet(fetches') :
             f.stage = "ok"
             => /\ Len(f.data) = Cardinality(store)
                /\ Range(f.data) = store
                /\ \A i, j \in 1..Len(f.data) :
                      i < j => \E a, b \in 1..Len(StoreOrder) :
                                  /\ a < b
                                  /\ StoreOrder[a] = f.data[i]
                                  /\ StoreOrder[b] = f.data[j]
       /\ \A f \in BagToSet(fetches') :
             (f.stage = "failed" /\ ~BagIn(f, fetches)) => StoreServeFetch
       /\ \A f \in BagToSet(fetches) :
             (LoadDataSettle /\ fetches' = fetches (-) One(f))
             => IF f.stage = "ok"
                THEN /\ reports' = f.data
                     /\ \A x \in AllIds : (reportOf'[x] # Null) <=> (x \in Range(f.data))
                     /\ \A x \in Range(f.data) :
                           /\ reportOf'[x].id = x
                           /\ Truthy(reportOf'[x].address)
                           /\ Truthy(reportOf'[x].dateTime)
                           /\ Truthy(reportOf'[x].description)
                           /\ reportOf'[x].imageBase64.kind = "string"
                           /\ reportOf'[x].latitude.kind = "number"
                           /\ ~reportOf'[x].latitude.nan
                           /\ reportOf'[x].longitude.kind = "number"
                           /\ ~reportOf'[x].longitude.nan
                           /\ reportOf'[x].timestampString.kind = "string"
                ELSE /\ reports' = reports
                     /\ reportOf' = reportOf]_vars

\* C18 witness: the collection holds a record without any field and a full
\* one; both are shown, in the store's order, the first with the defaults.
C18_Witness ==
    /\ ~appLoading
    /\ reports = StoreOrder
    /\ \A k \in {"address", "dateTime", "description", "imageBase64",
                 "latitude", "longitude", "timestamp"} : docs["r1"][k] = Absent
    /\ reportOf["r1"].id = "r1"
    /\ reportOf["r1"].address = Str(<<"Unknown Location">>)
    /\ reportOf["r1"].description = Str(<<"No description provided">>)
    /\ reportOf["r1"].latitude = Num(0)
    /\ reportOf["r1"].timestampString = Str(<<"Unknown Time">>)
    /\ reportOf["r2"].id = "r2"

-----------------------------------------------------------------------------
(***************************************************************************)
(* Normalization and media detection (checked under SpecNormalize).        *)
(***************************************************************************)
\* C14 as stated: normalizing the same raw record again, at any later
\* moment, yields a Report equal to the first field by field.
C14_Deterministic ==
    reportOf["r1"] # Null => reportOf["r1"] = Normalize("r1", docs["r1"], now)

\* C14 as amended: normalizing the same raw record again yields a Report
\* equal to the first in every field but dateTime; dateTime is the record's
\* own when it has one (a truthy value), and is equal too, and otherwise it
\* is the instant of the normalization, so that the two differ when the
\* moments do.
C14_DeterministicButDateTime ==
    reportOf["r1"] # Null
    => LET first == reportOf["r1"]
           again == Normalize("r1", docs["r1"], now)
       IN  /\ \A k \in {"id", "address", "description", "imageBase64",
                        "latitude", "longitude", "timestampString"} :
                 first[k] = again[k]
           /\ IF Truthy(docs["r1"].dateTime)
              THEN /\ first.dateTime = docs["r1"].dateTime
                   /\ again.dateTime = first.dateTime
              ELSE /\ first.dateTime \in {IsoText(t) : t \in 0..now}
                   /\ again.dateTime = IsoText(now)
                   /\ (first.dateTime = again.dateTime) <=> (first.dateTime.at = now)

\* C14 witness: a record without dateTime was normalized at instant 0 and
\* the clock has moved on since.
C14_Witness ==
    /\ reportOf["r1"] # Null
    /\ docs["r1"].dateTime = Absent
    /\ reportOf["r1"].dateTime = IsoText(0)
    /\ now > 0

\* C15: timestampString is the first of: the rendering of a store-native
\* timestamp object; the timestamp field when it is a string; 'January '
\* followed by the value of timestampJanuary; the value of the first field
\* named timestamp... that carries a usable value; 'Unknown Time'.  A
\* record none of whose timestamp-like fields carries a usable value gets
\* 'Unknown Time'.
C15_TimestampPriority ==
    reportOf["r1"] # Null
    => LET d == docs["r1"]
           usable == {i \in 1..Len(d.keys) : Truthy(d[d.keys[i]])}
           first == CHOOSE i \in usable : \A j \in usable : i <= j
       IN  reportOf["r1"].timestampString =
              IF d.timestamp.kind = "timestamp" THEN Str(<<d.timestamp.shown>>)
              ELSE IF d.timestamp.kind = "string" /\ Truthy(d.timestamp) THEN d.timestamp
              ELSE IF Truthy(d.timestampJanuary)
              THEN Str(<<"January ">> \o ToStr(d.timestampJanuary).toks)
              ELSE IF usable # {} THEN ToStr(d[d.keys[first]])
              ELSE Str(<<"Unknown Time">>)

C19_MediaDetection ==
    (verifyCall["r1"] # NoCall /\ verifyCall["r1"].requested)
    => LET toks == verifyCall["r1"].image.toks
           j == IndexAfter(toks, {";base64,"}, 1)
           a == IndexAfter(toks, Markers, 0)
       IN  verifyCall["r1"].request =
              IF Head(toks) = "data:" /\ j # 0
              THEN [mimeType |-> SubSeq(toks, 2, j - 1),
                    data |-> SubSeq(toks, j + 1, Len(toks))]
              ELSE IF a # 0
              THEN [mimeType |-> <<"image/jpeg">>,
                    data |-> SubSeq(toks, a + 1, Len(toks))]
              ELSE [mimeType |-> <<"image/jpeg">>, data |-> toks]

-----------------------------------------------------------------------------
(***************************************************************************)
(* Deletion without an identifier (checked under SpecNoId).                *)
(***************************************************************************)
\* C20: a deleteReport call with an empty id is rejected before its
\* request: it is never sent to the store, and neither the call nor its
\* continuation in handleDelete changes the working set or the store.
C20_NoIdRejected ==
    [][/\ \A c \in BagToSet(deleteCalls') : c.id = "" => c.stage = "rejected"
       /\ HandleDeleteNoId => (store' = store /\ reports' = reports)
       /\ \A c \in BagToSet(deleteCalls) :
             (c.id = "" /\ HandleDeleteSettleOf(c))
             => (store' = store /\ reports' = reports)]_vars

\* C20 witness: with both reports shown, a deletion without an identifier
\* has been rejected and no call to the store is outstanding.
C20_Witness ==
    /\ ~appLoading
    /\ reports = StoreOrder
    /\ store = AllIds
    /\ deleteCalls = One([id |-> "", stage |-> "rejected", live |-> FALSE])


-----------------------------------------------------------------------------
(***************************************************************************)
(* Failure messages of the deletion (checked under Spec).                  *)
(***************************************************************************)

\* C21 as stated: a deleteReport call that the store refused with the
\* permission-denied code throws the permission-specific message, never the
\* generic one, and a call that failed otherwise throws a message equal to
\* the message of the store's error.
C21_UnderlyingMessageSurfaced ==
    \A c \in BagToSet(deleteCalls) :
        /\ c.stage = "denied" =>
              DeleteReportError(c) = PermissionMessage
              /\ DeleteReportError(c) # GenericMessage
        /\ c.stage \in {"failed", "nomessage"} =>
              DeleteReportError(c) = StoreError[c.stage].message

\* C21, amended: a deleteReport call that the store refused with the
\* permission-denied code throws the permission-specific message, never the
\* generic one; a call that failed otherwise throws the message of the
\* store's error when that error has one, and the generic message when it
\* has none; handleDelete alerts the thrown message after its prefix.
C21_MessageOrGenericSurfaced ==
    \A c \in BagToSet(deleteCalls) :
        /\ c.stage = "denied" =>
              DeleteReportError(c) = PermissionMessage
              /\ DeleteReportError(c) # GenericMessage
        /\ c.stage = "failed" =>
              DeleteReportError(c) = StoreError[c.stage].message
        /\ c.stage = "nomessage" =>
              DeleteReportError(c) = GenericMessage
        /\ c.stage \in DOMAIN StoreError =>
              HandleDeleteAlert(c)[2] = DeleteReportError(c)

\* C21 witness: the store has refused one call with the permission-denied
\* code and the call's continuation has not run yet.
C21_Witness ==
    \E c \in BagToSet(deleteCalls) : c.stage = "denied" /\ c.live


-----------------------------------------------------------------------------
(***************************************************************************)
(* Timers, single flight and scoping of the deletion (checked under Spec). *)
(***************************************************************************)

\* C22: a timeout of row x whose callback runs while x is in deleting leaves
\* x in deleting, leaves the outstanding store delete calls as they are
\* (none cancelled, none added), and changes neither the working set nor the
\* store.
C22_TimerIgnoredWhileDeleting ==
    [][\A x \in AllIds :
          (TimerFire(x) /\ deleteState[x] = "deleting") =>
              /\ deleteState'[x] = "deleting"
              /\ deleteCalls' = deleteCalls
              /\ reports' = reports
              /\ store' = store]_vars

\* C22 witness: row x is in deleting with its call outstanding and no
\* timeout pending; the timeout armed by the first request of the round was
\* pending when x entered deleting, so its callback has run since.
C22_Witness ==
    \E x \in AllIds :
        /\ Mounted(x)
        /\ deleteState[x] = "deleting"
        /\ TimerCount(x) = 0
        /\ \E c \in BagToSet(deleteCalls) : c.id = x /\ c.live /\ c.stage = "sent"


\* C23 (checked under SpecReload): at any time at most one store delete call
\* is outstanding per identifier.
C23_OneCallPerIdentifier ==
    \A x \in AllIds :
        BagSum(deleteCalls, {c \in DOMAIN deleteCalls : c.id = x /\ c.stage = "sent"}) <= 1


-----------------------------------------------------------------------------
(***************************************************************************)
(* Single flight of the service requests (checked under SpecPanel and      *)
(* SpecIntake).                                                            *)
(***************************************************************************)

\* C25 (checked under SpecPanel): at any time at most one request of
\* analyzeReports is outstanding, the requests of a panel that has been
\* unmounted included.
C25_OneAnalysisOutstanding ==
    ~(genCall.stage = "sent" /\ "analyze" \in abandoned)


\* C26 (checked under SpecIntake): at any time at most one request of
\* verifyReportImage is outstanding per report, the requests of rows that
\* have been unmounted included.
C26_OneVerificationPerReport ==
    \A x \in AllIds : ~(verifyCall[x].stage = "sent" /\ x \in abandoned)


-----------------------------------------------------------------------------
(***************************************************************************)
(* The working set after a deletion (checked under Spec).                  *)
(***************************************************************************)

\* C27: an id that the continuation of a store-confirmed deletion has
\* filtered out of the working set is not in the working set afterwards.
C27_DeletedNeverReappears ==
    removed \cap Range(reports) = {}


\* C27, amended: once the continuation of a store-confirmed deletion has
\* filtered x out of the working set, the store does not hold x, no listing
\* that the store serves from then on contains x, and x re-enters the
\* working set only when a load settles whose listing the store had served
\* before (a load that was in flight, such as the second mount-time load of
\* a development build).
C27_ReappearsOnlyFromLoadInFlight ==
    [][\A x \in removed :
          /\ x \notin store
          /\ \A f \in BagToSet(fetches') :
                (f.stage = "ok" /\ CopiesIn(f, fetches') > CopiesIn(f, fetches))
                => x \notin Range(f.data)
          /\ (x \notin Range(reports) /\ x \in Range(reports'))
             => \E f \in BagToSet(fetches) :
                   /\ f.stage = "ok"
                   /\ x \in Range(f.data)
                   /\ reports' = f.data
                   /\ fetches' = fetches (-) One(f)]_vars

\* C27 witness: x, filtered out of the working set after the store deleted
\* it, is in the working set again.
C27_Witness ==
    \E x \in removed : x \in Range(reports) /\ x \notin store


\* C28 (checked under SpecIntake): a row whose verification state is 'done'
\* holds a VerificationResult.
C28_DoneHoldsResult ==
    \A x \in AllIds : verifyState[x] = "done" => auditResult[x] # Null


-----------------------------------------------------------------------------
(***************************************************************************)
(* Shape of the consultation log (checked under SpecPanel).                *)
(***************************************************************************)

\* C29: whenever the panel holds a session, its log starts with the greeting
\* and its roles alternate, model first; with no chat request in flight the
\* log has odd length and ends with a model message, and with a chat request
\* in flight it has even length and ends with the one unanswered user
\* message.
C29_LogAlternates ==
    chatRef # Null =>
        /\ Len(messages) >= 1
        /\ messages[1] = Greeting
        /\ \A i \in DOMAIN messages :
              messages[i].role = IF i % 2 = 1 THEN "model" ELSE "user"
        /\ chatCall = NoCall => Len(messages) % 2 = 1
        /\ chatCall # NoCall => Len(messages) % 2 = 0
        /\ chatLoading <=> chatCall # NoCall

\* C29 witness: a session in its second turn: the first turn is answered and
\* the request of the second is in flight.
C29_Witness ==
    /\ chatRef # Null
    /\ Len(messages) = 4
    /\ messages[3].role = "model"
    /\ messages[4].role = "user"
    /\ chatCall.stage = "sent"


-----------------------------------------------------------------------------
(***************************************************************************)
(* Progress of the deletion workflow (checked under SpecLive).             *)
(***************************************************************************)

\* C30: the row of every identifier that is not in idle is eventually in
\* idle again.
C30_ReturnsToIdle ==
    \A x \in AllIds : (deleteState[x] # "idle") ~> (deleteState[x] = "idle")

\* C30 witness: a row is back in idle after a deletion that the store
\* refused: the report is still in the working set, no call of the row is
\* outstanding, and the timeout of the round is still pending.
C30_Witness ==
    \E x \in AllIds :
        /\ Mounted(x)
        /\ deleteState[x] = "idle"
        /\ sinceConfirm[x] = -1
        /\ TimerCount(x) > 0
        /\ deleteCalls = EmptyBag

=============================================================================
